---- MODULE Spec2Model ----
(***************************************************************************)
(* FlavourCraft backend: the recipe synthesizer                            *)
(* (services/recipe_service.py: generate_ai_recipe and                     *)
(* fallback_rule_based_recipe), the detection merger                       *)
(* (services/ingredient_service.py: merge_detection_results), the          *)
(* registration and authentication of users (routes/auth.py,               *)
(* dependencies.py, services/auth_service.py), the handlers of the stored  *)
(* recipes and of the account (routes/recipes.py, routes/users.py) and the *)
(* upload handler (routes/upload.py).                                      *)
(*                                                                         *)
(* Confidences are exact rationals: an input confidence is a number of     *)
(* hundredths, a merged confidence a number of units of 1/(100 * 5^6), so  *)
(* that the weights 0.6 and 0.4 and repeated multiplications by 1.2 stay   *)
(* exact.                                                                  *)
(***************************************************************************)
EXTENDS Integers, Sequences, FiniteSets, Bags, TLC

VARIABLES
    request,         \* GeneratedRecipeRequest.ingredients of the synthesize call
    reply,           \* <<>> before client.chat.completions.create, then <<its outcome>>
    pc,              \* position of generate_ai_recipe: start, fallback, done
    result,          \* <<>> until the call returns, then <<the GeneratedRecipe>>
    escaped,         \* exception that left generate_ai_recipe, "none" if none
    recipe_type,     \* local recipe_type of fallback_rule_based_recipe, "" if unset
    fallback_exc,    \* exception raised in the try block of the fallback, "none" if none
    ai_calls,        \* number of invocations of the generative collaborator
    fallback_calls,  \* number of runs of fallback_rule_based_recipe
    local_results,   \* first argument of merge_detection_results
    openai_results,  \* second argument of merge_detection_results
    merge_pc,        \* position of merge_detection_results: start, done
    ingredient_scores, \* the dict of the merge when it ended, in insertion order
    merge_raised,    \* TRUE iff the try block of the merge raised
    merge_escaped,   \* exception that left merge_detection_results, "none" if none
    merged_results,  \* the list merge_detection_results returned
    users,           \* the documents of the collection users
    oid_counter,     \* number of ObjectIds the database and the models have made
    tokens,          \* the "sub" claims of the access tokens issued so far
    expired,         \* the tokens whose "exp" has passed
    reg,             \* per connection, the register call in flight and its position
    http,            \* the last exchange answered: its request and its response
    updates,         \* the bag of the update_user_profile calls in flight
    up_files,        \* the files of the upload_images request
    up_pc,           \* position of upload_images: start, saved, done
    temp_files,      \* positions of the request's files that exist under uploads/temp
    detections,      \* per saved file, the lists the two detectors returned
    detector_calls,  \* number of calls of a detector
    up_status,       \* status of the response of upload_images, 0 before it
    up_detail,       \* detail of its error response
    up_body,         \* <<>>, or <<the list "ingredients" of its 200 response>>
    generated_recipes, \* the documents of the collection generated_recipes
    calls,           \* the bag of the handler calls in flight, each with its locals
    response,        \* the response the last step of a handler sent, if it sent one
    deleted_ok,      \* ids of the users whose account deletion answered success
    toggle_count     \* per recipe id, the number of toggle requests answered 200

synthVars == <<request, reply, pc, result, escaped, recipe_type, fallback_exc,
               ai_calls, fallback_calls>>
mergeVars == <<local_results, openai_results, merge_pc, ingredient_scores,
               merge_raised, merge_escaped, merged_results>>
authVars == <<users, oid_counter, tokens, expired, reg, http, updates>>
uploadVars == <<up_files, up_pc, temp_files, detections, detector_calls,
                up_status, up_detail, up_body>>
recipeVars == <<generated_recipes, calls, response, deleted_ok, toggle_count>>
apiVars == <<authVars, uploadVars, recipeVars>>
vars == <<synthVars, mergeVars, apiVars>>

-----------------------------------------------------------------------------
(* Bounds *)

MaxIngredients == 2
MaxEntries == 3
\* requests of one kind that are in flight at the same time
MaxRequests == 2
\* files of one upload request
MaxFiles == 6
\* recipes generated in one run
MaxRecipes == 1
\* toggle requests for stored recipes in one run
MaxToggles == 2

-----------------------------------------------------------------------------
(* Stored documents and exchanges: data *)

\* a value used as a document id: a bson ObjectId, or the str made of its
\* 24 hexadecimal digits; the two never compare equal, as in a MongoDB
\* query and in Python
ObjectId(n) == [type |-> "ObjectId", hex |-> n]
NoId == [type |-> "none", hex |-> 0]

\* str(oid)
Str(id) == [type |-> "str", hex |-> id.hex]

\* the Authorization header: absent, or Bearer with a token whose payload
\* carries sub
NoCredentials == [present |-> FALSE, sub |-> NoId]
Bearer(sub) == [present |-> TRUE, sub |-> sub]

\* no exchange yet; an exchange is this record with the request (endpoint,
\* email, username, cred) and the response (status, detail, the token or
\* the email of its body) filled in; handler tells whether the body of the
\* route handler was entered
NoExchange ==
    [endpoint |-> "none", email |-> "", username |-> "", cred |-> NoCredentials,
     status |-> 0, detail |-> "", token |-> NoId, body_email |-> "",
     handler |-> FALSE]

AuthIdle ==
    /\ users = {}
    /\ oid_counter = 0
    /\ tokens = {}
    /\ expired = {}
    /\ reg = <<>>
    /\ http = NoExchange
    /\ updates = <<>>

UploadIdle ==
    /\ up_files = <<>>
    /\ up_pc = "idle"
    /\ temp_files = {}
    /\ detections = <<>>
    /\ detector_calls = 0
    /\ up_status = 0
    /\ up_detail = ""
    /\ up_body = <<>>

\* no response; a response is this record with the endpoint, the
\* caller, the recipe id of the path, the status, the detail of an error,
\* <<>> or <<the generated_recipe of the body>>, and the is_favorite of the
\* body
NoResponse ==
    [endpoint |-> "none", user |-> NoId, recipe_id |-> NoId, status |-> 0,
     detail |-> "", body |-> <<>>, is_favorite |-> FALSE]

RecipesIdle ==
    /\ generated_recipes = {}
    /\ calls = <<>>
    /\ response = NoResponse
    /\ deleted_ok = {}
    /\ toggle_count = <<>>

ApiIdle == AuthIdle /\ UploadIdle /\ RecipesIdle

-----------------------------------------------------------------------------
(* Recipe synthesizer: data *)

\* ingredient names a request may hold
IngredientNames == {"rice", "noodles", "chicken", "carrot", "Rice"}

RECURSIVE SeqsUpTo(_, _)
SeqsUpTo(S, n) ==
    IF n = 0 THEN {<<>>}
    ELSE LET shorter == SeqsUpTo(S, n - 1)
         IN  shorter \cup {Append(s, x) : s \in {t \in shorter : Len(t) = n - 1}, x \in S}

\* str.title() on the ingredient names
Title(s) ==
    CASE s = "rice"    -> "Rice"
      [] s = "noodles" -> "Noodles"
      [] s = "chicken" -> "Chicken"
      [] s = "carrot"  -> "Carrot"
      [] s = "Rice"    -> "Rice"

\* ', '.join(seq)
RECURSIVE Join(_)
Join(seq) ==
    IF Len(seq) = 0 THEN ""
    ELSE IF Len(seq) = 1 THEN seq[1]
    ELSE seq[1] \o ", " \o Join(Tail(seq))

\* GeneratedRecipe(...): the six fields of the model; tips is {} for None
Recipe(title, steps, estimated_time, difficulty, tips, servings) ==
    [title |-> title, steps |-> steps, estimated_time |-> estimated_time,
     difficulty |-> difficulty, tips |-> tips, servings |-> servings]

DefaultServings == 4

-----------------------------------------------------------------------------
(* Replies of the generative collaborator *)

\* a JSON member: t is "absent" (no such key), "ok" (a value of the field's
\* JSON type, v) or "wrong" (a value the field's type rejects)
Member(t, v) == [t |-> t, v |-> v]

TitleMembers      == {Member("absent", ""), Member("ok", ""), Member("ok", "Soup")}
StepsMembers      == {Member("ok", <<>>), Member("ok", <<"">>),
                      Member("ok", <<"Boil", "Serve">>), Member("wrong", <<>>)}
TimeMembers       == {Member("ok", 0), Member("ok", 30), Member("wrong", 0)}
DifficultyMembers == {Member("ok", "easy"), Member("ok", "extreme")}
TipsMembers       == {Member("absent", ""), Member("ok", "Stir well")}
ServingsMembers   == {Member("absent", 0), Member("ok", 0), Member("ok", 2)}

JsonObjects ==
    [title : TitleMembers, steps : StepsMembers, estimated_time : TimeMembers,
     difficulty : DifficultyMembers, tips : TipsMembers, servings : ServingsMembers]

EmptyObject ==
    [title |-> Member("absent", ""), steps |-> Member("wrong", <<>>),
     estimated_time |-> Member("wrong", 0), difficulty |-> Member("ok", "easy"),
     tips |-> Member("absent", ""), servings |-> Member("absent", 0)]

\* message.content after strip(): how it opens ("fence_json": with the three
\* backquotes and the word json, "fence": with three backquotes and then the
\* body, "": with the body itself), the body, and whether it ends with a
\* closing fence of three backquotes
Text(open, json, obj, closed) ==
    [kind |-> "text", exc |-> "", open |-> open, json |-> json, obj |-> obj,
     closed |-> closed]

Wrappers == {<<"", FALSE>>, <<"fence_json", TRUE>>, <<"fence", TRUE>>,
             <<"fence_json", FALSE>>}

Replies ==
    {[kind |-> "raise", exc |-> e, open |-> "", json |-> "", obj |-> EmptyObject,
      closed |-> FALSE] : e \in {"APIConnectionError", "APITimeoutError"}}
    \cup {[kind |-> "no_content", exc |-> "", open |-> "", json |-> "",
           obj |-> EmptyObject, closed |-> FALSE]}
    \cup {Text(w[1], j, EmptyObject, w[2]) : w \in Wrappers, j \in {"prose", "array"}}
    \cup {Text(w[1], "object", o, w[2]) : w \in Wrappers, o \in JsonObjects}

-----------------------------------------------------------------------------
(* generate_ai_recipe: the try block *)

\* recipe_text[7:-3] or recipe_text[3:-3]: the opening fence is cut off, and
\* the last three characters, which are the closing fence if there is one
\* and the end of the body otherwise
StripFence(text) ==
    [json |-> text.json, obj |-> text.obj,
     intact |-> IF text.open \in {"fence_json", "fence"} THEN text.closed ELSE TRUE]

\* json.loads: "JSONDecodeError", or "none" and the value
JsonLoadsExc(stripped) ==
    IF stripped.json = "prose" \/ ~stripped.intact THEN "JSONDecodeError" ELSE "none"

\* pydantic's check of GeneratedRecipe(**recipe_data): a required field that
\* is missing, or any field whose value has the wrong type
ValidationFails(obj) ==
    \/ \E f \in {"title", "steps", "estimated_time", "difficulty"} : obj[f].t # "ok"
    \/ \E f \in {"tips", "servings"} : obj[f].t = "wrong"

\* variant: servings always left at its default
FromJsonDefaultServings(obj) ==
    Recipe(obj.title.v, obj.steps.v, obj.estimated_time.v, obj.difficulty.v,
           IF obj.tips.t = "ok" THEN {obj.tips.v} ELSE {},
           DefaultServings)

\* GeneratedRecipe(**recipe_data) for a valid mapping: the fields as given,
\* tips None and servings 4 when absent
FromJson(obj) ==
    Recipe(obj.title.v, obj.steps.v, obj.estimated_time.v, obj.difficulty.v,
           IF obj.tips.t = "ok" THEN {obj.tips.v} ELSE {},
           IF obj.servings.t = "ok" THEN obj.servings.v ELSE DefaultServings)

\* what the try block of generate_ai_recipe raises on the reply, "none" if
\* it reaches its return
TryExc(rep) ==
    IF rep.kind = "raise" THEN rep.exc
    ELSE IF rep.kind = "no_content" THEN "AttributeError"
    ELSE IF JsonLoadsExc(StripFence(rep)) # "none" THEN JsonLoadsExc(StripFence(rep))
    ELSE IF rep.json = "array" THEN "TypeError"
    ELSE IF ValidationFails(rep.obj) THEN "ValidationError"
    ELSE "none"

\* variant: only the first except clause, json.JSONDecodeError
CaughtJsonOnly(exc) == exc = "JSONDecodeError"

\* the except clauses of generate_ai_recipe: json.JSONDecodeError, Exception
Caught(exc) ==
    \/ exc = "JSONDecodeError"
    \/ exc \in {"APIConnectionError", "APITimeoutError", "AttributeError",
                "TypeError", "ValidationError"}

-----------------------------------------------------------------------------
(* fallback_rule_based_recipe *)

Grains   == {"rice", "pasta", "noodles"}
Proteins == {"chicken", "beef", "fish", "paneer", "tofu"}

Contains(ingredients, x) == \E i \in 1..Len(ingredients) : ingredients[i] = x

\* variant: the protein test before the grain test
RecipeTypeProteinFirst(ingredients) ==
    IF \E p \in {"chicken", "beef", "fish", "paneer", "tofu"} : Contains(ingredients, p)
    THEN "protein_based"
    ELSE IF \E g \in {"rice", "pasta", "noodles"} : Contains(ingredients, g)
    THEN "grain_based"
    ELSE "vegetable_stir_fry"

RecipeType(ingredients) ==
    IF \E g \in Grains : Contains(ingredients, g) THEN "grain_based"
    ELSE IF \E p \in Proteins : Contains(ingredients, p) THEN "protein_based"
    ELSE "vegetable_stir_fry"

\* variant: the title built from the last ingredient
GrainBasedLastTitle(ingredients) ==
    Recipe(Title(ingredients[Len(ingredients)]) \o " Bowl",
           <<"Prepare all ingredients: " \o Join(ingredients),
             "Heat oil in a large pan or wok",
             "Add aromatics (onion, garlic, ginger) if available",
             "Add main ingredients and cook until tender",
             "Season with salt, pepper, and available spices",
             "Serve hot and enjoy!">>,
           25, "easy", {"Feel free to adjust seasoning to taste"}, 4)

GrainBased(ingredients) ==
    Recipe(Title(ingredients[1]) \o " Bowl",
           <<"Prepare all ingredients: " \o Join(ingredients),
             "Heat oil in a large pan or wok",
             "Add aromatics (onion, garlic, ginger) if available",
             "Add main ingredients and cook until tender",
             "Season with salt, pepper, and available spices",
             "Serve hot and enjoy!">>,
           25, "easy", {"Feel free to adjust seasoning to taste"}, 4)

\* variant: a difficulty outside the three levels
ProteinBasedModerate(ingredients) ==
    Recipe("Simple " \o Title(ingredients[1]) \o " Dish",
           <<"Clean and prepare " \o ingredients[1], "Heat oil in a pan">>,
           30, "moderate", {"Don't overcook the protein"}, 4)

ProteinBased(ingredients) ==
    Recipe("Simple " \o Title(ingredients[1]) \o " Dish",
           <<"Clean and prepare " \o ingredients[1],
             "Heat oil in a pan",
             "Cook protein until golden brown",
             "Add vegetables and seasonings",
             "Cook until everything is well combined",
             "Serve with rice or bread">>,
           30, "medium", {"Don't overcook the protein"}, 4)

VegetableStirFry ==
    Recipe("Mixed Vegetable Stir Fry",
           <<"Wash and chop all vegetables",
             "Heat oil in a wok or large pan",
             "Add harder vegetables first",
             "Stir fry on high heat",
             "Add softer vegetables",
             "Season and serve hot">>,
           15, "easy", {"Keep vegetables crispy for better texture"}, 4)

AbsoluteFallback ==
    Recipe("Simple Ingredient Mix",
           <<"Combine all available ingredients",
             "Cook with basic seasonings",
             "Adjust taste as needed">>,
           20, "easy", {"This is a basic combination of your ingredients"}, 4)

\* building the recipes dict evaluates ingredients[0] for the first two
\* templates, whichever type was chosen
TemplatesExc(ingredients) == IF Len(ingredients) = 0 THEN "IndexError" ELSE "none"

\* recipes.get(recipe_type, recipes["vegetable_stir_fry"])
Template(rtype, ingredients) ==
    CASE rtype = "grain_based"   -> GrainBased(ingredients)
      [] rtype = "protein_based" -> ProteinBased(ingredients)
      [] OTHER                         -> VegetableStirFry

\* variant: except KeyError
FallbackCaughtKeyError(exc) == exc \in {"KeyError"}

\* the except clause of fallback_rule_based_recipe: Exception
FallbackCaught(exc) == exc \in {"IndexError"}

-----------------------------------------------------------------------------
(* The synthesizer as a state machine *)

MergeIdle ==
    /\ local_results = <<>>
    /\ openai_results = <<>>
    /\ merge_pc = "idle"
    /\ ingredient_scores = <<>>
    /\ merge_raised = FALSE
    /\ merge_escaped = "none"
    /\ merged_results = <<>>

\* the request of one call; the empty list is a request built without the
\* min_items check of GeneratedRecipeRequest
InitSynth ==
    /\ request \in SeqsUpTo(IngredientNames, MaxIngredients)
    /\ reply = <<>>
    /\ pc = "start"
    /\ result = <<>>
    /\ escaped = "none"
    /\ recipe_type = ""
    /\ fallback_exc = "none"
    /\ ai_calls = 0
    /\ fallback_calls = 0
    /\ MergeIdle
    /\ ApiIdle

\* variant: a failed attempt is repeated once before the fallback is called
GenerativeAttemptRetry ==
    /\ pc = "start"
    /\ \E rep \in Replies :
        /\ reply' = <<rep>>
        /\ ai_calls' = ai_calls + 1
        /\ IF TryExc(rep) = "none"
             THEN /\ result' = <<FromJson(rep.obj)>>
                  /\ pc' = "done"
                  /\ escaped' = escaped
             ELSE IF Caught(TryExc(rep))
             THEN /\ pc' = IF ai_calls = 0 THEN "start" ELSE "fallback"
                  /\ UNCHANGED <<result, escaped>>
             ELSE /\ pc' = "done"
                  /\ escaped' = TryExc(rep)
                  /\ result' = result
    /\ UNCHANGED <<request, recipe_type, fallback_exc, fallback_calls, mergeVars, apiVars>>

\* generate_ai_recipe up to its return or to the call of the fallback
GenerativeAttempt ==
    /\ pc = "start"
    /\ \E rep \in Replies :
        /\ reply' = <<rep>>
        /\ ai_calls' = ai_calls + 1
        /\ IF TryExc(rep) = "none"
             THEN /\ result' = <<FromJson(rep.obj)>>
                  /\ pc' = "done"
                  /\ escaped' = escaped
             ELSE IF Caught(TryExc(rep))
             THEN /\ pc' = "fallback"
                  /\ UNCHANGED <<result, escaped>>
             ELSE /\ pc' = "done"
                  /\ escaped' = TryExc(rep)
                  /\ result' = result
    /\ UNCHANGED <<request, recipe_type, fallback_exc, fallback_calls, mergeVars, apiVars>>

\* fallback_rule_based_recipe, called from an except clause, and the return
\* of its result by generate_ai_recipe
Fallback ==
    /\ pc = "fallback"
    /\ fallback_calls' = fallback_calls + 1
    /\ recipe_type' = RecipeType(request)
    /\ pc' = "done"
    /\ IF TemplatesExc(request) = "none"
         THEN /\ result' = <<Template(RecipeType(request), request)>>
              /\ UNCHANGED <<fallback_exc, escaped>>
         ELSE IF FallbackCaught(TemplatesExc(request))
         THEN /\ result' = <<AbsoluteFallback>>
              /\ fallback_exc' = TemplatesExc(request)
              /\ escaped' = escaped
         ELSE /\ escaped' = TemplatesExc(request)
              /\ fallback_exc' = TemplatesExc(request)
              /\ result' = result
    /\ UNCHANGED <<request, reply, ai_calls, mergeVars, apiVars>>

NextSynth == GenerativeAttempt \/ Fallback

SpecSynth == InitSynth /\ [][NextSynth]_vars

-----------------------------------------------------------------------------
(* merge_detection_results: data *)

\* 5^6: the units 1/(100 * 5^6) keep six successive multiplications by 1.2 exact
Unit == 5 * 5 * 5 * 5 * 5 * 5

\* the constants of the merge, in tenths
LocalWeight  == 6
OpenAIWeight == 4
Boost        == 12
Cap          == 10
Threshold    == 3

\* a number of tenths as a confidence in units
Tenths(t) == t * 10 * Unit

\* input confidences, in hundredths
Confidences == {50, 80, 100}

\* names as the detectors may spell them
DetectedNames == {"tomato", "Tomato", " tomato", "onion"}

\* str.lower() on the detected names
Lower(s) == IF s = "Tomato" THEN "tomato" ELSE s

\* a detection entry; kind "no_name" lacks the key "name" and "no_conf" the
\* key "confidence"
Entry(kind, name, confidence) == [kind |-> kind, name |-> name, confidence |-> confidence]

Entries ==
    {Entry("ok", n, c) : n \in DetectedNames, c \in Confidences}
    \cup {Entry("no_name", "", 80), Entry("no_conf", "onion", 0)}

\* ingredient["name"] or ingredient["confidence"] raises KeyError
Malformed(ingredient) == ingredient.kind # "ok"

Score(name, confidence, sources) ==
    [name |-> name, confidence |-> confidence, sources |-> sources]

\* position of the key in the dict, 0 if it is not a key
KeyIndex(scores, name) ==
    IF \E i \in 1..Len(scores) : scores[i].name = name
    THEN CHOOSE i \in 1..Len(scores) : scores[i].name = name
    ELSE 0

\* variant: a list of records instead of a dict keyed by name
SetItemAppend(scores, name, value) == Append(scores, value)

\* ingredient_scores[name] = value: a new key goes last, an old key keeps its place
SetItem(scores, name, value) ==
    IF KeyIndex(scores, name) = 0 THEN Append(scores, value)
    ELSE [scores EXCEPT ![KeyIndex(scores, name)] = value]

Min(a, b) == IF a <= b THEN a ELSE b

-----------------------------------------------------------------------------
(* merge_detection_results: the two loops, the filter and the sort *)

\* variant: the local confidence copied without its weight
LocalStepUnscaled(scores, ingredient) ==
    SetItem(scores, Lower(ingredient.name),
            Score(Lower(ingredient.name), ingredient.confidence * Unit,
                  <<"local_ml">>))

\* body of the loop over local_results
LocalStep(scores, ingredient) ==
    SetItem(scores, Lower(ingredient.name),
            Score(Lower(ingredient.name),
                  (ingredient.confidence * LocalWeight * Unit) \div 10,
                  <<"local_ml">>))

\* variant: the weighted sum without the agreement bonus
AgreementNoBoost(existing, confidence) ==
    Min(existing + (confidence * OpenAIWeight * Unit) \div 10, Tenths(Cap))

\* the confidence of a name both sources reported
Agreement(existing, confidence) ==
    Min(((existing + (confidence * OpenAIWeight * Unit) \div 10) * Boost) \div 10,
        Tenths(Cap))

\* body of the loop over openai_results
OpenAIStep(scores, ingredient) ==
    LET name == Lower(ingredient.name)
        i    == KeyIndex(scores, name)
    IN  IF i # 0
        THEN [scores EXCEPT ![i] =
                 Score(name, Agreement(scores[i].confidence, ingredient.confidence),
                       Append(scores[i].sources, "openai_vision"))]
        ELSE SetItem(scores, name,
                     Score(name, (ingredient.confidence * OpenAIWeight * Unit) \div 10,
                           <<"openai_vision">>))

\* a loop up to its end or to the entry that raises: the dict then, and
\* whether it raised
RECURSIVE LocalLoop(_, _)
LocalLoop(scores, rest) ==
    IF rest = <<>> THEN [scores |-> scores, raised |-> FALSE]
    ELSE IF Malformed(Head(rest)) THEN [scores |-> scores, raised |-> TRUE]
    ELSE LocalLoop(LocalStep(scores, Head(rest)), Tail(rest))

RECURSIVE OpenAILoop(_, _)
OpenAILoop(scores, rest) ==
    IF rest = <<>> THEN [scores |-> scores, raised |-> FALSE]
    ELSE IF Malformed(Head(rest)) THEN [scores |-> scores, raised |-> TRUE]
    ELSE OpenAILoop(OpenAIStep(scores, Head(rest)), Tail(rest))

\* variant: >= 0.3
KeptInclusive(data) == data.confidence >= Tenths(Threshold)

\* if data["confidence"] > 0.3
Kept(data) == data.confidence > Tenths(Threshold)

RECURSIVE Filter(_)
Filter(scores) ==
    IF scores = <<>> THEN <<>>
    ELSE IF Kept(Head(scores)) THEN <<Head(scores)>> \o Filter(Tail(scores))
    ELSE Filter(Tail(scores))

\* variant: reverse=False
BeforeAscending(x, y) == x.confidence < y.confidence

\* x goes before y in the sorted list: key confidence, reverse=True
Before(x, y) == x.confidence > y.confidence

\* variant: x is placed before the elements of its own confidence
RECURSIVE InsertBeforeEqual(_, _)
InsertBeforeEqual(sorted, x) ==
    IF sorted = <<>> THEN <<x>>
    ELSE IF ~Before(Head(sorted), x) THEN <<x>> \o sorted
    ELSE <<Head(sorted)>> \o InsertBeforeEqual(Tail(sorted), x)

\* list.sort is stable: x is placed behind every element that is not behind it
RECURSIVE Insert(_, _)
Insert(sorted, x) ==
    IF sorted = <<>> THEN <<x>>
    ELSE IF Before(x, Head(sorted)) THEN <<x>> \o sorted
    ELSE <<Head(sorted)>> \o Insert(Tail(sorted), x)

RECURSIVE Sort(_)
Sort(list) ==
    IF list = <<>> THEN <<>>
    ELSE Insert(Sort(SubSeq(list, 1, Len(list) - 1)), list[Len(list)])

\* variant: except ValueError
MergeCaughtValueError(exc) == exc \in {"ValueError"}

\* the except clause of merge_detection_results: Exception
MergeCaught(exc) == exc \in {"KeyError", "ValueError"}

\* merge_detection_results: the dict when the try block ended, whether it
\* raised (a missing key: KeyError), the exception that left the function
\* and the returned list
MergeDetectionResults(local, openai) ==
    LET afterLocal == LocalLoop(<<>>, local)
        afterBoth  == IF afterLocal.raised THEN afterLocal
                      ELSE OpenAILoop(afterLocal.scores, openai)
    IN  [scores   |-> afterBoth.scores,
         raised   |-> afterBoth.raised,
         escaped  |-> IF afterBoth.raised /\ ~MergeCaught("KeyError")
                      THEN "KeyError" ELSE "none",
         returned |-> IF afterBoth.raised THEN <<>>
                      ELSE Sort(Filter(afterBoth.scores))]

-----------------------------------------------------------------------------
(* The merger as a state machine *)

SynthIdle ==
    /\ request = <<>>
    /\ reply = <<>>
    /\ pc = "idle"
    /\ result = <<>>
    /\ escaped = "none"
    /\ recipe_type = ""
    /\ fallback_exc = "none"
    /\ ai_calls = 0
    /\ fallback_calls = 0

InitMerge ==
    /\ local_results \in SeqsUpTo(Entries, MaxEntries)
    /\ openai_results \in SeqsUpTo(Entries, MaxEntries - Len(local_results))
    /\ merge_pc = "start"
    /\ ingredient_scores = <<>>
    /\ merge_raised = FALSE
    /\ merge_escaped = "none"
    /\ merged_results = <<>>
    /\ SynthIdle
    /\ ApiIdle

Merge ==
    /\ merge_pc = "start"
    /\ LET m == MergeDetectionResults(local_results, openai_results)
       IN  /\ ingredient_scores' = m.scores
           /\ merge_raised' = m.raised
           /\ merge_escaped' = m.escaped
           /\ merged_results' = m.returned
    /\ merge_pc' = "done"
    /\ UNCHANGED <<local_results, openai_results, synthVars, apiVars>>

NextMerge == Merge

SpecMerge == InitMerge /\ [][NextMerge]_vars

-----------------------------------------------------------------------------
(* Registration and authentication: routes/auth.py, dependencies.py *)

\* addresses and names a client may send; every one passes the checks of
\* UserCreate (EmailStr, 3 to 50 characters)
Emails    == {"ann@x.io", "bob@x.io", "a!b@x.io"}
Usernames == {"ann", "bob", "a b"}

\* validate_email: the pattern allows no exclamation mark
ValidateEmail(email) == email \in {"ann@x.io", "bob@x.io"}

\* validate_username: letters, digits and underscores only
ValidateUsername(username) == username \in {"ann", "bob"}

InvalidEmail    == "Invalid email format"
InvalidUsername == "Invalid username. Must be 3-50 characters, alphanumeric and underscores only"
AlreadyExists   == "User with this email or username already exists"

\* a document of the collection users
User(id, email, username) == [id |-> id, email |-> email, username |-> username]

\* variant: the query asks for the email only
ExistingEmailOnly(email, username) == {u \in users : u.email = email}

\* find({"$or": [{"email": email}, {"username": username}]})
Existing(email, username) ==
    {u \in users : u.email = email \/ u.username = username}

\* find({"_id": id}): the stored _id equals the given value, type included
FindById(collection, id) == {d \in collection : d.id = id}

\* pydantic's check of a value given for a field declared str
StrFieldExc(value) == IF value.type = "str" THEN "none" ELSE "ValidationError"

\* the status of HTTPBearer() for a request without Authorization header:
\* 403 in the FastAPI releases before 0.122, 401 since
BearerMissing == {401, 403}

IdleCall == [pc |-> "idle", email |-> "", username |-> ""]

\* the requests in flight on the users collection
Pending ==
    Cardinality({s \in DOMAIN reg : reg[s].pc = "insert"}) + BagCardinality(updates)

RegisterExchange(email, username, status, detail, token) ==
    [NoExchange EXCEPT !.endpoint = "register", !.email = email,
                       !.username = username, !.status = status,
                       !.detail = detail, !.token = token, !.handler = TRUE]

ProfileExchange(cred, status, detail, body_email, handler) ==
    [NoExchange EXCEPT !.endpoint = "profile", !.cred = cred, !.status = status,
                       !.detail = detail, !.body_email = body_email,
                       !.handler = handler]

InitAuth ==
    /\ users = {}
    /\ oid_counter = 0
    /\ tokens = {}
    /\ expired = {}
    /\ reg = [s \in 1..MaxRequests |-> IdleCall]
    /\ http = NoExchange
    /\ updates = EmptyBag
    /\ SynthIdle
    /\ MergeIdle
    /\ UploadIdle
    /\ RecipesIdle

\* register up to the answer of find_one: the two validations, the query,
\* and the rejection if a document matched
RegisterCheck(s, email, username) ==
    /\ reg[s].pc = "idle"
    /\ Pending < MaxRequests
    /\ IF ~ValidateEmail(email)
         THEN /\ http' = RegisterExchange(email, username, 400, InvalidEmail, NoId)
              /\ reg' = reg
       ELSE IF ~ValidateUsername(username)
         THEN /\ http' = RegisterExchange(email, username, 400, InvalidUsername, NoId)
              /\ reg' = reg
       ELSE IF Existing(email, username) # {}
         THEN /\ http' = RegisterExchange(email, username, 400, AlreadyExists, NoId)
              /\ reg' = reg
       ELSE /\ reg' = [reg EXCEPT ![s] = [pc |-> "insert", email |-> email,
                                           username |-> username]]
            /\ http' = http
    /\ UNCHANGED <<users, oid_counter, tokens, expired, updates, synthVars,
                   mergeVars, uploadVars, recipeVars>>

\* variant: the collection has no unique index, insert_one always inserts
RegisterInsertNoIndex(s) ==
    /\ reg[s].pc = "insert"
    /\ reg' = [reg EXCEPT ![s] = IdleCall]
    /\ LET id == ObjectId(oid_counter + 1)
       IN  /\ users' = users \cup {User(id, reg[s].email, reg[s].username)}
           /\ oid_counter' = oid_counter + 1
           /\ tokens' = tokens \cup {Str(id)}
           /\ http' = RegisterExchange(reg[s].email, reg[s].username, 200,
                                       "User registered successfully", Str(id))
    /\ UNCHANGED <<expired, updates, synthVars, mergeVars,
                   uploadVars, recipeVars>>

\* register from the call of register_user: insert_one under the unique
\* indexes on email and username, then the token with sub = str(inserted_id);
\* DuplicateKeyError is answered by except Exception
RegisterInsert(s) ==
    /\ reg[s].pc = "insert"
    /\ reg' = [reg EXCEPT ![s] = IdleCall]
    /\ IF \E u \in users : u.email = reg[s].email \/ u.username = reg[s].username
         THEN /\ http' = RegisterExchange(reg[s].email, reg[s].username, 500,
                                          "Registration failed", NoId)
              /\ UNCHANGED <<users, oid_counter, tokens>>
         ELSE LET id == ObjectId(oid_counter + 1)
              IN  /\ users' = users \cup {User(id, reg[s].email, reg[s].username)}
                  /\ oid_counter' = oid_counter + 1
                  /\ tokens' = tokens \cup {Str(id)}
                  /\ http' = RegisterExchange(reg[s].email, reg[s].username, 200,
                                              "User registered successfully", Str(id))
    /\ UNCHANGED <<expired, updates, synthVars, mergeVars,
                   uploadVars, recipeVars>>

\* GET /users/profile: HTTPBearer, get_current_user (verify_token, find_one
\* by the sub of the token, UserDocument) and get_user_profile (UserResponse
\* from the document's dict)
Profile(cred) ==
    /\ IF ~cred.present
         THEN \E st \in BearerMissing :
                  http' = ProfileExchange(cred, st, "Not authenticated", "", FALSE)
       ELSE IF cred.sub \in expired
         THEN http' = ProfileExchange(cred, 401, "Invalid token", "", FALSE)
       ELSE IF FindById(users, cred.sub) = {}
         THEN http' = ProfileExchange(cred, 401, "User not found", "", FALSE)
       ELSE LET user == CHOOSE u \in FindById(users, cred.sub) : TRUE
            IN  IF StrFieldExc(user.id) # "none"
                  THEN http' = ProfileExchange(cred, 500, "Failed to fetch profile",
                                               "", TRUE)
                  ELSE http' = ProfileExchange(cred, 200, "", user.email, TRUE)
    /\ UNCHANGED <<users, oid_counter, tokens, expired, reg, updates, synthVars,
                   mergeVars, uploadVars, recipeVars>>

\* ACCESS_TOKEN_EXPIRE_MINUTES after its creation a token is expired
TokenExpires(t) ==
    /\ t \in tokens \ expired
    /\ expired' = expired \cup {t}
    /\ UNCHANGED <<users, oid_counter, tokens, reg, http, updates, synthVars,
                   mergeVars, uploadVars, recipeVars>>

NextAuth ==
    \/ \E s \in 1..MaxRequests, email \in Emails, username \in Usernames :
           RegisterCheck(s, email, username)
    \/ \E s \in 1..MaxRequests : RegisterInsert(s)
    \/ \E cred \in {NoCredentials} \cup {Bearer(t) : t \in tokens} : Profile(cred)
    \/ \E t \in tokens : TokenExpires(t)

SpecAuth == InitAuth /\ [][NextAuth]_vars

-----------------------------------------------------------------------------
(* The collection users under concurrent writers: register of routes/auth.py
   and update_user_profile of routes/users.py, over the unique indexes of
   create_indexes in services/storage_service.py.  update_user_profile is
   entered with the UserDocument of a stored user, the value get_current_user
   hands to it. *)

UsernameTaken == "Username already taken"
UpdateFailed  == "Profile update failed"

\* an update_user_profile call in flight: its position, current_user.id and,
\* until update_one has it, user_update.username
UpdateCall(at, id, username) == [pc |-> at, id |-> id, username |-> username]

\* the exchange of PUT /users/profile: its status, the detail of its error,
\* the username of its 200 body
UpdateExchange(status, detail, username) ==
    [NoExchange EXCEPT !.endpoint = "update_profile", !.status = status,
                       !.detail = detail, !.username = username,
                       !.handler = TRUE]

\* find({"username": username, "_id": {"$ne": id}})
OtherWithUsername(id, username) ==
    {u \in users : u.username = username /\ u.id # id}

\* update_user_profile with a username, up to the answer of find_one: the
\* rejection if another document has the name
UpdateCheck(u, username) ==
    /\ u \in users
    /\ Pending < MaxRequests
    /\ IF OtherWithUsername(u.id, username) # {}
         THEN /\ http' = UpdateExchange(400, UsernameTaken, "")
              /\ updates' = updates
         ELSE /\ updates' = updates (+) SetToBag({UpdateCall("write", u.id, username)})
              /\ http' = http
    /\ UNCHANGED <<users, oid_counter, tokens, expired, reg, synthVars, mergeVars,
                   uploadVars, recipeVars>>

\* update_one({"_id": id}, {"$set": {"username": username}}) under the unique
\* index on username; DuplicateKeyError is answered by except Exception
UpdateWrite(h) ==
    /\ BagIn(h, updates)
    /\ h.pc = "write"
    /\ IF OtherWithUsername(h.id, h.username) # {}
         THEN /\ http' = UpdateExchange(500, UpdateFailed, "")
              /\ updates' = updates (-) SetToBag({h})
              /\ users' = users
         ELSE /\ users' = {IF u.id = h.id THEN [u EXCEPT !.username = h.username]
                                          ELSE u : u \in users}
              /\ updates' = (updates (-) SetToBag({h}))
                                (+) SetToBag({UpdateCall("fetch", h.id, "")})
              /\ http' = http
    /\ UNCHANGED <<oid_counter, tokens, expired, reg, synthVars, mergeVars,
                   uploadVars, recipeVars>>

\* find_one({"_id": id}) and UserResponse(**updated_user): the document's
\* _id is given for the field id declared str
UpdateFetch(h) ==
    /\ BagIn(h, updates)
    /\ h.pc = "fetch"
    /\ updates' = updates (-) SetToBag({h})
    /\ IF FindById(users, h.id) = {}
         THEN http' = UpdateExchange(500, UpdateFailed, "")
       ELSE LET user == CHOOSE u \in FindById(users, h.id) : TRUE
            IN  IF StrFieldExc(user.id) # "none"
                  THEN http' = UpdateExchange(500, UpdateFailed, "")
                  ELSE http' = UpdateExchange(200, "", user.username)
    /\ UNCHANGED <<users, oid_counter, tokens, expired, reg, synthVars, mergeVars,
                   uploadVars, recipeVars>>

NextUsers ==
    \/ \E s \in 1..MaxRequests, email \in Emails, username \in Usernames :
           RegisterCheck(s, email, username)
    \/ \E s \in 1..MaxRequests : RegisterInsert(s)
    \/ \E u \in users, username \in Usernames : UpdateCheck(u, username)
    \/ \E h \in BagToSet(updates) : UpdateWrite(h)
    \/ \E h \in BagToSet(updates) : UpdateFetch(h)

SpecUsers == InitAuth /\ [][NextUsers]_vars

-----------------------------------------------------------------------------
(* upload_images: routes/upload.py, utils/validators.py *)

MaxImages         == 5
MaxUploadSize     == 10485760
TopIngredients    == 20
AllowedExtensions == {"jpg", "jpeg", "png", "webp"}
AllowedContentTypes == {"image/jpeg", "image/jpg", "image/png", "image/webp"}

UploadFile(filename, size, content_type) ==
    [filename |-> filename, size |-> size, content_type |-> content_type]

\* files a client may send: one that passes validate_image_file, of
\* exactly the largest size, and one for each reason to fail
FileKinds ==
    {UploadFile("b.PNG", MaxUploadSize, "image/png"),
     UploadFile("c.txt", 1024, "image/jpeg"),
     UploadFile("d.jpg", MaxUploadSize + 1, "image/jpeg"),
     UploadFile("e.jpg", 1024, "text/plain")}

\* filename.split('.')[-1].lower()
Extension(filename) ==
    CASE filename = "b.PNG" -> "png"
      [] filename = "c.txt" -> "txt"
      [] OTHER              -> "jpg"

\* variant: without the check of the size
ValidateImageFileNoSize(file) ==
    IF file.filename = "" THEN FALSE
    ELSE IF Extension(file.filename) \notin AllowedExtensions THEN FALSE
    ELSE IF file.content_type \notin AllowedContentTypes THEN FALSE
    ELSE TRUE

ValidateImageFile(file) ==
    IF file.filename = "" THEN FALSE
    ELSE IF Extension(file.filename) \notin AllowedExtensions THEN FALSE
    ELSE IF file.size > MaxUploadSize THEN FALSE
    ELSE IF file.content_type \notin AllowedContentTypes THEN FALSE
    ELSE TRUE

\* position of the file at which the loop of upload_images raises, 0 if it
\* runs to its end
FirstInvalid(files) ==
    IF \E i \in 1..Len(files) : ~ValidateImageFile(files[i])
    THEN CHOOSE i \in 1..Len(files) :
            /\ ~ValidateImageFile(files[i])
            /\ \A j \in 1..(i - 1) : ValidateImageFile(files[j])
    ELSE 0

\* mock_ingredients of detect_local_ingredients
MockIngredients ==
    <<Entry("ok", "tomato", 92), Entry("ok", "onion", 87), Entry("ok", "garlic", 75)>>

\* detect_local_ingredients: its try block ends ("mock") or raises
LocalOutcomes == {"mock", "raise"}

\* detect_local_ingredients: the mock list, [] from its except clause
DetectLocal(outcome) == IF outcome = "raise" THEN <<>> ELSE MockIngredients

\* twenty-one names in one answer of the vision model
ManyNames ==
    <<"apple", "basil", "carrot", "celery", "chili", "corn", "cumin", "egg",
      "ginger", "honey", "leek", "lemon", "lime", "mint", "olive", "pea",
      "pepper", "potato", "rice", "salt", "thyme">>

\* outcomes of the vision call: it raises, or message.content split at the
\* commas
VisionReplies ==
    {[kind |-> "raise", pieces |-> <<>>],
     [kind |-> "text", pieces |-> <<"Tomato", " basil", "", " tomato">>],
     [kind |-> "text", pieces |-> ManyNames]}

\* name.strip().lower() on the pieces of an answer
StripLower(piece) ==
    CASE piece = "Tomato"  -> "tomato"
      [] piece = " tomato" -> "tomato"
      [] piece = " basil"  -> "basil"
      [] OTHER             -> piece

\* the entries for the names that are not empty, each with confidence 0.85
RECURSIVE VisionEntries(_)
VisionEntries(pieces) ==
    IF pieces = <<>> THEN <<>>
    ELSE IF StripLower(Head(pieces)) = "" THEN VisionEntries(Tail(pieces))
    ELSE <<Entry("ok", StripLower(Head(pieces)), 85)>> \o VisionEntries(Tail(pieces))

\* detect_openai_ingredients: the entries of the answer, [] from its except
\* clause
DetectOpenAI(rep) == IF rep.kind = "raise" THEN <<>> ELSE VisionEntries(rep.pieces)

\* one round of the second loop of upload_images: local_ingredients,
\* openai_ingredients and merged_ingredients
Detection(local, openai) ==
    [local |-> local, openai |-> openai,
     merged |-> MergeDetectionResults(local, openai).returned]

\* all_ingredients: the merged lists of the images, one after the other
RECURSIVE AllIngredients(_)
AllIngredients(ds) ==
    IF ds = <<>> THEN <<>>
    ELSE Head(ds).merged \o AllIngredients(Tail(ds))

\* variant: per name the first record, never replaced
RECURSIVE UniqueIngredientsKeepFirst(_, _)
UniqueIngredientsKeepFirst(unique, list) ==
    IF list = <<>> THEN unique
    ELSE LET ingredient == Head(list)
             name == Lower(ingredient.name)
         IN  IF KeyIndex(unique, name) = 0
             THEN UniqueIngredientsKeepFirst(SetItem(unique, name, ingredient),
                                             Tail(list))
             ELSE UniqueIngredientsKeepFirst(unique, Tail(list))

\* unique_ingredients: per name the first record, replaced by a later one
\* of higher confidence
RECURSIVE UniqueIngredients(_, _)
UniqueIngredients(unique, list) ==
    IF list = <<>> THEN unique
    ELSE LET ingredient == Head(list)
             name == Lower(ingredient.name)
             at == KeyIndex(unique, name)
         IN  IF at = 0 \/ ingredient.confidence > unique[at].confidence
             THEN UniqueIngredients(SetItem(unique, name, ingredient), Tail(list))
             ELSE UniqueIngredients(unique, Tail(list))

\* final_ingredients[:20]
FinalIngredients(ds) ==
    LET final == Sort(UniqueIngredients(<<>>, AllIngredients(ds)))
    IN  SubSeq(final, 1, Min(TopIngredients, Len(final)))

InitUpload ==
    /\ up_files \in SeqsUpTo(FileKinds, MaxFiles) \ {<<>>}
    /\ up_pc = "start"
    /\ temp_files = {}
    /\ detections = <<>>
    /\ detector_calls = 0
    /\ up_status = 0
    /\ up_detail = ""
    /\ up_body = <<>>
    /\ SynthIdle
    /\ MergeIdle
    /\ AuthIdle
    /\ RecipesIdle

\* upload_images up to the end of its first loop: the check of the number
\* of files, then each file validated and saved in turn
UploadValidate ==
    /\ up_pc = "start"
    /\ IF Len(up_files) > MaxImages
         THEN /\ up_status' = 400
              /\ up_detail' = "Maximum 5 images allowed"
              /\ up_pc' = "done"
              /\ temp_files' = temp_files
       ELSE IF FirstInvalid(up_files) # 0
         THEN /\ up_status' = 400
              /\ up_detail' = "Invalid file"
              /\ up_pc' = "done"
              /\ temp_files' = 1..(FirstInvalid(up_files) - 1)
       ELSE /\ up_pc' = "saved"
            /\ temp_files' = 1..Len(up_files)
            /\ UNCHANGED <<up_status, up_detail>>
    /\ UNCHANGED <<up_files, detections, detector_calls, up_body, synthVars,
                   mergeVars, authVars, recipeVars>>

\* variant: a detector that raises ends the request in the outer except
\* clause, before the saved files are removed
UploadProcessUnguarded ==
    /\ up_pc = "saved"
    /\ \E outcomes \in [1..Len(up_files) -> LocalOutcomes],
          replies \in [1..Len(up_files) -> VisionReplies] :
           LET ds == [i \in 1..Len(up_files) |->
                         Detection(DetectLocal(outcomes[i]), DetectOpenAI(replies[i]))]
               failed == \E i \in 1..Len(up_files) :
                            outcomes[i] = "raise" \/ replies[i].kind = "raise"
           IN  /\ detections' = ds
               /\ up_body' = IF failed THEN <<>> ELSE <<FinalIngredients(ds)>>
               /\ up_status' = IF failed THEN 500 ELSE 200
               /\ up_detail' = IF failed THEN "Image processing failed" ELSE ""
               /\ temp_files' = IF failed THEN temp_files ELSE {}
    /\ detector_calls' = detector_calls + 2 * Len(up_files)
    /\ up_pc' = "done"
    /\ UNCHANGED <<up_files, synthVars, mergeVars, authVars, recipeVars>>

\* upload_images from its second loop: both detectors and the merge for
\* each saved file, the removal of duplicates, the sort, the removal of the
\* saved files and the response
UploadProcess ==
    /\ up_pc = "saved"
    /\ \E outcomes \in [1..Len(up_files) -> LocalOutcomes],
          replies \in [1..Len(up_files) -> VisionReplies] :
           LET ds == [i \in 1..Len(up_files) |->
                         Detection(DetectLocal(outcomes[i]), DetectOpenAI(replies[i]))]
           IN  /\ detections' = ds
               /\ up_body' = <<FinalIngredients(ds)>>
    /\ detector_calls' = detector_calls + 2 * Len(up_files)
    /\ temp_files' = {}
    /\ up_status' = 200
    /\ up_detail' = ""
    /\ up_pc' = "done"
    /\ UNCHANGED <<up_files, synthVars, mergeVars, authVars, recipeVars>>

NextUpload == UploadValidate \/ UploadProcess

SpecUpload == InitUpload /\ [][NextUpload]_vars

-----------------------------------------------------------------------------
(* The handlers generate_recipe and toggle_favorite (routes/recipes.py) and *)
(* delete_user_account (routes/users.py), entered with the UserDocument of *)
(* a stored user as current_user; every await of a handler ends a step.    *)

\* the users stored before the run, and their ObjectIds
StoredUsers ==
    {User(ObjectId(1), "ann@x.io", "ann"), User(ObjectId(2), "bob@x.io", "bob")}

\* the request bodies of POST /recipes/generate and the outcomes of the
\* generative call: it raises, it answers with prose, it answers with a
\* recipe in the documented shape
RouteRequests == {<<"chicken", "rice">>}

GoodObject ==
    [title |-> Member("ok", "Soup"), steps |-> Member("ok", <<"Boil", "Serve">>),
     estimated_time |-> Member("ok", 30), difficulty |-> Member("ok", "easy"),
     tips |-> Member("ok", "Stir well"), servings |-> Member("ok", 2)]

RouteReplies ==
    {[kind |-> "raise", exc |-> "APITimeoutError", open |-> "", json |-> "",
      obj |-> EmptyObject, closed |-> FALSE],
     Text("", "prose", EmptyObject, FALSE),
     Text("", "object", GoodObject, FALSE)}

\* generate_ai_recipe as a function of the request and of the outcome of
\* the generative call: the exception that leaves it, "none" if none, and
\* <<the recipe it returns>>
GenerateAiRecipe(ingredients, rep) ==
    IF TryExc(rep) = "none"
      THEN [exc |-> "none", recipe |-> <<FromJson(rep.obj)>>]
    ELSE IF ~Caught(TryExc(rep))
      THEN [exc |-> TryExc(rep), recipe |-> <<>>]
    ELSE IF TemplatesExc(ingredients) = "none"
      THEN [exc |-> "none",
            recipe |-> <<Template(RecipeType(ingredients), ingredients)>>]
    ELSE IF FallbackCaught(TemplatesExc(ingredients))
      THEN [exc |-> "none", recipe |-> <<AbsoluteFallback>>]
    ELSE [exc |-> TemplatesExc(ingredients), recipe |-> <<>>]

\* a document of the collection generated_recipes
RecipeDoc(id, user_id, ingredients, generated_recipe, is_favorite) ==
    [id |-> id, user_id |-> user_id, ingredients |-> ingredients,
     generated_recipe |-> generated_recipe, is_favorite |-> is_favorite]

\* a recipe_id of the path that is not made of 24 hexadecimal digits
BadId == [type |-> "str", hex |-> 0]

\* ObjectId.is_valid(recipe_id) and ObjectId(recipe_id)
IsValid(recipe_id) == recipe_id.hex # 0
ObjectIdOf(recipe_id) == ObjectId(recipe_id.hex)

\* the recipe ids a client may put in the path
PathIds == {Str(d.id) : d \in generated_recipes} \cup {BadId}

\* the locals of a handler call before its first step
IdleHandler ==
    [kind |-> "idle", pc |-> "idle", user |-> NoId, ingredients |-> <<>>,
     recipe_id |-> NoId, new_status |-> FALSE]

Answer(endpoint, user, recipe_id, status, detail, body, is_favorite) ==
    [endpoint |-> endpoint, user |-> user, recipe_id |-> recipe_id,
     status |-> status, detail |-> detail, body |-> body,
     is_favorite |-> is_favorite]

\* the calls of a kind that are in flight
InFlight(kind) == [h \in {g \in DOMAIN calls : g.kind = kind} |-> calls[h]]

\* a call enters, a call ends, a call goes on to its next await
Enter(h) == calls (+) SetToBag({h})
Leave(h) == calls (-) SetToBag({h})
Goes(h, next) == (calls (-) SetToBag({h})) (+) SetToBag({next})

\* a connection is free for one more request
Accepting == BagCardinality(calls) < MaxRequests

InitRecipes ==
    /\ users = StoredUsers
    /\ oid_counter = 2
    /\ tokens = {}
    /\ expired = {}
    /\ reg = <<>>
    /\ http = NoExchange
    /\ updates = <<>>
    /\ generated_recipes = {}
    /\ calls = EmptyBag
    /\ response = NoResponse
    /\ deleted_ok = {}
    /\ toggle_count = <<>>
    /\ SynthIdle
    /\ MergeIdle
    /\ UploadIdle

\* what the recipe handlers leave alone
RecipesFrame == <<tokens, expired, reg, http, updates, synthVars, mergeVars,
                  uploadVars>>

\* generate_recipe up to the call of the generative collaborator inside
\* generate_ai_recipe, for a caller get_current_user found in users
GenerateBegin(u, ingredients) ==
    /\ Accepting
    /\ u \in users
    /\ (oid_counter - 2) + BagCardinality(InFlight("generate")) < MaxRecipes
    /\ calls' = Enter([IdleHandler EXCEPT !.kind = "generate", !.pc = "insert",
                                          !.user = u.id,
                                          !.ingredients = ingredients])
    /\ response' = NoResponse
    /\ UNCHANGED <<users, oid_counter, generated_recipes, deleted_ok,
                   toggle_count, RecipesFrame>>

\* generate_recipe from the outcome of the generative call to the
\* response: the rest of generate_ai_recipe, the GeneratedRecipeDocument,
\* insert_one, then GeneratedRecipeResponse from the document's dict, whose
\* _id is given for the field id: str; except Exception answers 500
GenerateInsert(h, rep) ==
    /\ BagIn(h, calls)
    /\ h.kind = "generate"
    /\ h.pc = "insert"
    /\ calls' = Leave(h)
    /\ IF GenerateAiRecipe(h.ingredients, rep).exc # "none"
         THEN /\ response' = Answer("generate", h.user, NoId, 500,
                                    "Recipe generation failed", <<>>, FALSE)
              /\ UNCHANGED <<oid_counter, generated_recipes, toggle_count>>
         ELSE LET doc == RecipeDoc(ObjectId(oid_counter + 1), h.user, h.ingredients,
                                   GenerateAiRecipe(h.ingredients, rep).recipe[1],
                                   FALSE)
              IN  /\ oid_counter' = oid_counter + 1
                  /\ generated_recipes' = generated_recipes \cup {doc}
                  /\ toggle_count' =
                        [id \in DOMAIN toggle_count \cup {doc.id} |->
                            IF id = doc.id THEN 0 ELSE toggle_count[id]]
                  /\ response' =
                        IF StrFieldExc(doc.id) # "none"
                        THEN Answer("generate", h.user, NoId, 500,
                                    "Recipe generation failed", <<>>, FALSE)
                        ELSE Answer("generate", h.user, doc.id, 200, "",
                                    <<doc.generated_recipe>>, doc.is_favorite)
    /\ UNCHANGED <<users, deleted_ok, RecipesFrame>>

\* the toggle requests answered 200 so far
RECURSIVE Toggled(_)
Toggled(ids) ==
    IF ids = {} THEN 0
    ELSE LET id == CHOOSE x \in ids : TRUE
         IN  toggle_count[id] + Toggled(ids \ {id})

\* toggle_favorite up to find_one, for a caller get_current_user found in
\* users: the check of the recipe id
ToggleBegin(u, recipe_id) ==
    /\ Accepting
    /\ u \in users
    /\ IsValid(recipe_id) =>
          Toggled(DOMAIN toggle_count) + BagCardinality(InFlight("toggle"))
              < MaxToggles
    /\ IF ~IsValid(recipe_id)
         THEN /\ response' = Answer("toggle", u.id, recipe_id, 400,
                                    "Invalid recipe ID", <<>>, FALSE)
              /\ calls' = calls
         ELSE /\ calls' = Enter([IdleHandler EXCEPT !.kind = "toggle", !.pc = "find",
                                                    !.user = u.id,
                                                    !.recipe_id = recipe_id])
              /\ response' = NoResponse
    /\ UNCHANGED <<users, oid_counter, generated_recipes, deleted_ok,
                   toggle_count, RecipesFrame>>

\* variant: the query asks for the _id only
OwnRecipeAnyOwner(recipe_id, user_id) ==
    {d \in generated_recipes : d.id = ObjectIdOf(recipe_id)}

\* find_one({"_id": ObjectId(recipe_id), "user_id": current_user.id})
OwnRecipe(recipe_id, user_id) ==
    {d \in generated_recipes :
        d.id = ObjectIdOf(recipe_id) /\ d.user_id = user_id}

\* toggle_favorite from find_one to the call of update_one
ToggleFind(h) ==
    /\ BagIn(h, calls)
    /\ h.kind = "toggle"
    /\ h.pc = "find"
    /\ IF OwnRecipe(h.recipe_id, h.user) = {}
         THEN /\ response' = Answer("toggle", h.user, h.recipe_id, 404,
                                    "Recipe not found", <<>>, FALSE)
              /\ calls' = Leave(h)
         ELSE LET recipe == CHOOSE d \in OwnRecipe(h.recipe_id, h.user) : TRUE
              IN  /\ calls' = Goes(h, [h EXCEPT !.pc = "update",
                                                !.new_status = ~recipe.is_favorite])
                  /\ response' = NoResponse
    /\ UNCHANGED <<users, oid_counter, generated_recipes, deleted_ok,
                   toggle_count, RecipesFrame>>

\* update_one({"_id": ObjectId(recipe_id)}, {"$set": {"is_favorite": ...}})
\* and the response
ToggleUpdate(h) ==
    /\ BagIn(h, calls)
    /\ h.kind = "toggle"
    /\ h.pc = "update"
    /\ generated_recipes' =
          {IF d.id = ObjectIdOf(h.recipe_id)
             THEN [d EXCEPT !.is_favorite = h.new_status]
             ELSE d : d \in generated_recipes}
    /\ toggle_count' = [toggle_count EXCEPT ![ObjectIdOf(h.recipe_id)] = @ + 1]
    /\ response' = Answer("toggle", h.user, h.recipe_id, 200, "", <<>>,
                          h.new_status)
    /\ calls' = Leave(h)
    /\ UNCHANGED <<users, oid_counter, deleted_ok, RecipesFrame>>

\* get_generated_recipe, for a caller get_current_user found in users: the
\* check of the recipe id, find_one and GeneratedRecipeResponse from the
\* document, whose _id is given for the field id: str
GetGeneratedRecipe(u, recipe_id) ==
    /\ Accepting
    /\ u \in users
    /\ IF ~IsValid(recipe_id)
         THEN response' = Answer("get", u.id, recipe_id, 400, "Invalid recipe ID",
                                 <<>>, FALSE)
       ELSE IF OwnRecipe(recipe_id, u.id) = {}
         THEN response' = Answer("get", u.id, recipe_id, 404, "Recipe not found",
                                 <<>>, FALSE)
       ELSE LET recipe == CHOOSE d \in OwnRecipe(recipe_id, u.id) : TRUE
            IN  IF StrFieldExc(recipe.id) # "none"
                  THEN response' = Answer("get", u.id, recipe_id, 500,
                                          "Failed to fetch recipe", <<>>, FALSE)
                  ELSE response' = Answer("get", u.id, recipe_id, 200, "",
                                          <<recipe.generated_recipe>>,
                                          recipe.is_favorite)
    /\ UNCHANGED <<users, oid_counter, generated_recipes, calls, deleted_ok,
                   toggle_count, RecipesFrame>>

\* delete_user_account up to delete_many, for a caller get_current_user
\* found in users
DeleteBegin(u) ==
    /\ Accepting
    /\ u \in users
    /\ calls' = Enter([IdleHandler EXCEPT !.kind = "delete",
                                          !.pc = "delete_recipes", !.user = u.id])
    /\ response' = NoResponse
    /\ UNCHANGED <<users, oid_counter, generated_recipes, deleted_ok,
                   toggle_count, RecipesFrame>>

\* generated_recipes.delete_many({"user_id": current_user.id})
DeleteRecipes(h) ==
    /\ BagIn(h, calls)
    /\ h.kind = "delete"
    /\ h.pc = "delete_recipes"
    /\ generated_recipes' = {d \in generated_recipes : d.user_id # h.user}
    /\ calls' = Goes(h, [h EXCEPT !.pc = "delete_user"])
    /\ response' = NoResponse
    /\ UNCHANGED <<users, oid_counter, deleted_ok, toggle_count, RecipesFrame>>

\* users.delete_one({"_id": current_user.id}) and the response
DeleteUser(h) ==
    /\ BagIn(h, calls)
    /\ h.kind = "delete"
    /\ h.pc = "delete_user"
    /\ users' = {u \in users : u.id # h.user}
    /\ deleted_ok' = deleted_ok \cup {h.user}
    /\ response' = Answer("delete", h.user, NoId, 200,
                          "Account deleted successfully", <<>>, FALSE)
    /\ calls' = Leave(h)
    /\ UNCHANGED <<oid_counter, generated_recipes, toggle_count, RecipesFrame>>

NextRecipes ==
    \/ \E u \in users, ingredients \in RouteRequests : GenerateBegin(u, ingredients)
    \/ \E h \in BagToSet(calls), rep \in RouteReplies : GenerateInsert(h, rep)
    \/ \E u \in users, recipe_id \in PathIds : ToggleBegin(u, recipe_id)
    \/ \E h \in BagToSet(calls) : ToggleFind(h)
    \/ \E h \in BagToSet(calls) : ToggleUpdate(h)
    \/ \E u \in users, recipe_id \in PathIds : GetGeneratedRecipe(u, recipe_id)
    \/ \E u \in users : DeleteBegin(u)
    \/ \E h \in BagToSet(calls) : DeleteRecipes(h)
    \/ \E h \in BagToSet(calls) : DeleteUser(h)

SpecRecipes == InitRecipes /\ [][NextRecipes]_vars

-----------------------------------------------------------------------------
(* Properties of the synthesizer, checked under SpecSynth *)

RecipeFields == {"title", "steps", "estimated_time", "difficulty", "tips", "servings"}

Returned == pc = "done" /\ Len(result) = 1

\* the reply made the generative attempt fail
AttemptFailed == Len(reply) = 1 /\ fallback_calls = 1

\* title, steps, time, servings and difficulty as the Recipe invariants ask
ValidRecipe(r) ==
    /\ r.title # ""
    /\ Len(r.steps) >= 1
    /\ r.estimated_time > 0
    /\ r.servings > 0
    /\ r.difficulty \in {"easy", "medium", "hard"}

NonEmptySteps(r) == \A i \in 1..Len(r.steps) : r.steps[i] # ""

\* C1: for a request with at least one ingredient no exception leaves
\* generate_ai_recipe, whatever the generative call did (it raised, it timed
\* out, its reply was not JSON, lacked a required field or had a field of
\* the wrong type), and once the call has ended it has returned a recipe
\* with the six fields.
C1_NeverPropagates ==
    Len(request) >= 1 =>
        /\ escaped = "none"
        /\ pc = "done" => /\ Len(result) = 1
                          /\ DOMAIN result[1] = RecipeFields

\* a reply that parses but lacks the title has ended in a returned recipe
C1_Witness ==
    /\ Len(request) >= 1
    /\ Returned
    /\ escaped = "none"
    /\ reply[1].kind = "text"
    /\ reply[1].json = "object"
    /\ reply[1].obj.title.t = "absent"
    /\ reply[1].obj.steps.t = "ok"
    /\ reply[1].obj.estimated_time.t = "ok"

\* C2: when the generative attempt failed and the request holds at least one
\* ingredient, the returned recipe has a non-empty title, at least one step,
\* a positive estimated time, a positive number of servings and a difficulty
\* among easy, medium and hard.
C2_FallbackValid ==
    (Returned /\ AttemptFailed /\ Len(request) >= 1) => ValidRecipe(result[1])

C2_Witness ==
    /\ Returned
    /\ reply[1].kind = "raise"
    /\ fallback_calls = 1
    /\ request = <<"chicken", "carrot">>
    /\ ValidRecipe(result[1])

\* C3: every returned recipe is valid, the one built from a parseable reply
\* included: non-empty title, at least one step and no empty step, positive
\* time and servings, difficulty among easy, medium and hard.
C3_EveryPathValid ==
    (Returned /\ Len(request) >= 1) => ValidRecipe(result[1]) /\ NonEmptySteps(result[1])

\* C4: for a non-empty ingredient list the fallback takes grain_based if any
\* ingredient is rice, pasta or noodles, otherwise protein_based if any is
\* chicken, beef, fish, paneer or tofu, otherwise vegetable_stir_fry with the
\* title "Mixed Vegetable Stir Fry".
C4_Classification ==
    (Returned /\ AttemptFailed /\ Len(request) >= 1) =>
        LET has(S) == \E i \in 1..Len(request) : request[i] \in S
            grain   == has({"rice", "pasta", "noodles"})
            protein == has({"chicken", "beef", "fish", "paneer", "tofu"})
        IN  /\ grain => /\ recipe_type = "grain_based"
                        /\ result[1].title = Title(request[1]) \o " Bowl"
                        /\ result[1].estimated_time = 25
            /\ (~grain /\ protein) =>
                        /\ recipe_type = "protein_based"
                        /\ result[1].title = "Simple " \o Title(request[1]) \o " Dish"
                        /\ result[1].estimated_time = 30
            /\ (~grain /\ ~protein) =>
                        /\ recipe_type = "vegetable_stir_fry"
                        /\ result[1].title = "Mixed Vegetable Stir Fry"
                        /\ result[1].estimated_time = 15

\* a grain behind a protein still selects the grain template
C4_Witness ==
    /\ Returned
    /\ AttemptFailed
    /\ request = <<"chicken", "rice">>
    /\ recipe_type = "grain_based"
    /\ result[1].title = "Chicken Bowl"

\* C5: when building the templates raises inside the fallback, the call
\* returns the last-resort recipe (title "Simple Ingredient Mix", its three
\* steps, 20 minutes, easy, 4 servings) and no exception leaves it.
C5_LastResort ==
    (pc = "done" /\ fallback_exc # "none") =>
        /\ escaped = "none"
        /\ Len(result) = 1
        /\ result[1].title = "Simple Ingredient Mix"
        /\ result[1].steps = <<"Combine all available ingredients",
                               "Cook with basic seasonings",
                               "Adjust taste as needed">>
        /\ result[1].estimated_time = 20
        /\ result[1].difficulty = "easy"
        /\ result[1].servings = 4

C5_Witness ==
    /\ Returned
    /\ fallback_exc = "IndexError"
    /\ result[1].title = "Simple Ingredient Mix"

\* C20: within one call the generative collaborator is invoked at most
\* once and the fallback runs at most once; the fallback is entered only
\* after the one attempt failed; an attempt that succeeded has returned its
\* recipe and the fallback has not run.
C20_TwoTiers ==
    /\ ai_calls <= 1
    /\ fallback_calls <= 1
    /\ pc = "start" => (ai_calls = 0 /\ fallback_calls = 0)
    /\ (pc = "fallback" \/ fallback_calls = 1) =>
          /\ ai_calls = 1
          /\ Len(reply) = 1
          /\ TryExc(reply[1]) # "none"
    /\ (Len(reply) = 1 /\ TryExc(reply[1]) = "none") =>
          /\ pc = "done"
          /\ ai_calls = 1
          /\ fallback_calls = 0
          /\ result = <<FromJson(reply[1].obj)>>

\* the one attempt timed out and the fallback ran once and returned
C20_Witness ==
    /\ Returned
    /\ reply[1].kind = "raise"
    /\ reply[1].exc = "APITimeoutError"
    /\ ai_calls = 1
    /\ fallback_calls = 1
    /\ result[1] = Template(RecipeType(request), request)

\* per template, the recipes the fallback builds from it for the non-empty
\* requests it classifies as that template
SameTemplate ==
    [rtype \in {"grain_based", "protein_based", "vegetable_stir_fry"} |->
        {Template(rtype, other) :
            other \in {o \in SeqsUpTo(IngredientNames, MaxIngredients) :
                          Len(o) >= 1 /\ RecipeType(o) = rtype}}]

\* the time, the difficulty and the servings the claim gives for a template
TemplateNumbers(r) ==
    /\ recipe_type = "grain_based" =>
          r.estimated_time = 25 /\ r.difficulty = "easy" /\ r.servings = 4
    /\ recipe_type = "protein_based" =>
          r.estimated_time = 30 /\ r.difficulty = "medium" /\ r.servings = 4
    /\ recipe_type = "vegetable_stir_fry" =>
          r.estimated_time = 15 /\ r.difficulty = "easy" /\ r.servings = 4

\* the titles of grain_based and protein_based name the first ingredient
TitleFromFirst(r) ==
    /\ recipe_type = "grain_based" => r.title = Title(request[1]) \o " Bowl"
    /\ recipe_type = "protein_based" =>
          r.title = "Simple " \o Title(request[1]) \o " Dish"

\* a recipe the fallback built from one of its three templates
FromTemplate == Returned /\ AttemptFailed /\ Len(request) >= 1

\* C21 as stated: a recipe of the fallback has the steps, the time, the
\* difficulty, the tips and the servings that its template gives for every
\* other ingredient list (25 minutes, easy, 4 servings for grain_based; 30,
\* medium, 4 for protein_based; 15, easy, 4 for vegetable_stir_fry), and the
\* titles of grain_based and protein_based name the first ingredient.
C21_OnlyTitleVaries ==
    FromTemplate =>
        /\ \A t \in SameTemplate[recipe_type] :
              /\ result[1].steps = t.steps
              /\ result[1].estimated_time = t.estimated_time
              /\ result[1].difficulty = t.difficulty
              /\ result[1].tips = t.tips
              /\ result[1].servings = t.servings
        /\ TemplateNumbers(result[1])
        /\ TitleFromFirst(result[1])

\* the first step the claim leaves out: grain_based lists the ingredients
\* of the request, protein_based names the first of them
FirstStepFromRequest(r) ==
    /\ recipe_type = "grain_based" =>
          r.steps[1] = "Prepare all ingredients: " \o Join(request)
    /\ recipe_type = "protein_based" =>
          r.steps[1] = "Clean and prepare " \o request[1]

\* C21, amended: the same for every step but the first, for the number of
\* steps, the time, the difficulty, the tips and the servings; the first
\* step of grain_based lists the ingredients of the request, that of
\* protein_based names the first ingredient, and that of
\* vegetable_stir_fry is the same for every request.
C21_TitleAndFirstStepVary ==
    FromTemplate =>
        /\ \A t \in SameTemplate[recipe_type] :
              /\ Len(result[1].steps) = Len(t.steps)
              /\ \A i \in 2..Len(t.steps) : result[1].steps[i] = t.steps[i]
              /\ recipe_type = "vegetable_stir_fry" =>
                    result[1].steps[1] = t.steps[1]
              /\ result[1].estimated_time = t.estimated_time
              /\ result[1].difficulty = t.difficulty
              /\ result[1].tips = t.tips
              /\ result[1].servings = t.servings
        /\ TemplateNumbers(result[1])
        /\ TitleFromFirst(result[1])
        /\ FirstStepFromRequest(result[1])

\* rice behind carrot: the grain template with the title of carrot and
\* both ingredients in its first step
C21_Witness ==
    /\ FromTemplate
    /\ request = <<"carrot", "rice">>
    /\ recipe_type = "grain_based"
    /\ result[1].title = "Carrot Bowl"
    /\ result[1].steps[1] = "Prepare all ingredients: carrot, rice"
    /\ result[1].estimated_time = 25

\* the reply is a JSON object, not fenced, with the six members of the
\* documented shape, each of its field's type
DocumentedShape(rep) ==
    /\ rep.kind = "text"
    /\ rep.open = ""
    /\ rep.json = "object"
    /\ \A f \in RecipeFields : rep.obj[f].t = "ok"

\* C22: a reply that is a JSON object in the documented shape is returned
\* as the recipe whose title, steps, estimated_time, difficulty, tips and
\* servings are the reply's; the fallback has not run.
C22_ReplyVerbatim ==
    (Len(reply) = 1 /\ DocumentedShape(reply[1])) =>
        /\ Returned
        /\ escaped = "none"
        /\ fallback_calls = 0
        /\ recipe_type = ""
        /\ result[1].title = reply[1].obj.title.v
        /\ result[1].steps = reply[1].obj.steps.v
        /\ result[1].estimated_time = reply[1].obj.estimated_time.v
        /\ result[1].difficulty = reply[1].obj.difficulty.v
        /\ result[1].tips = {reply[1].obj.tips.v}
        /\ result[1].servings = reply[1].obj.servings.v

\* a reply for 2 servings, for a request the grain template would answer
\* with 4
C22_Witness ==
    /\ Returned
    /\ request = <<"rice">>
    /\ DocumentedShape(reply[1])
    /\ reply[1].obj.title.v = "Soup"
    /\ reply[1].obj.servings.v = 2
    /\ result[1] = Recipe("Soup", <<"Boil", "Serve">>, 30, "easy", {"Stir well"}, 2)

-----------------------------------------------------------------------------
(* Properties of the merger, checked under SpecMerge *)

MergeDone == merge_pc = "done"

\* the well-formed entries of a list whose name is n up to letter case
Reports(list, n) ==
    {i \in 1..Len(list) : list[i].kind = "ok" /\ Lower(list[i].name) = n}

\* the names a list reports
OkNames(list) ==
    {Lower(list[i].name) : i \in {j \in 1..Len(list) : list[j].kind = "ok"}}

ReportedNames == OkNames(local_results) \cup OkNames(openai_results)

\* the confidence of the only entry of a list that reports n
OnlyReport(list, n) == list[CHOOSE i \in Reports(list, n) : TRUE].confidence

\* the records of a list of merged records that carry the name n
Records(list, n) == {i \in 1..Len(list) : list[i].name = n}

\* one hundredth and one thousandth of confidence, in units
Hundredth == Unit
InUnits(thousandths) == (thousandths * Unit) \div 10

\* C6: the returned list is ordered by confidence, highest first: each
\* record's confidence is at least that of the record behind it.
C6_SortedDescending ==
    \A i \in 1..(Len(merged_results) - 1) :
        merged_results[i].confidence >= merged_results[i + 1].confidence

\* three records came back, in another order than the dict held them
C6_Witness ==
    /\ MergeDone
    /\ Len(merged_results) = 3
    /\ merged_results[1].confidence > merged_results[2].confidence
    /\ merged_results[2].confidence > merged_results[3].confidence
    /\ ingredient_scores[1].confidence < ingredient_scores[2].confidence

\* C7: no name occurs twice in the returned list, also when the inputs
\* repeat a name within one list or across the two.
C7_UniqueNames ==
    \A i, j \in 1..Len(merged_results) :
        merged_results[i].name = merged_results[j].name => i = j

\* a name given twice by the local detector and once by the remote one
C7_Witness ==
    /\ MergeDone
    /\ Cardinality(Reports(local_results, "tomato")) = 2
    /\ Cardinality(Reports(openai_results, "tomato")) = 1
    /\ Cardinality(Records(merged_results, "tomato")) = 1

\* C8: the returned list holds no record with confidence 0.3 or less, and,
\* when the merge ran to its end, every merged record above 0.3.
C8_ThresholdExact ==
    MergeDone =>
        /\ \A i \in 1..Len(merged_results) :
              merged_results[i].confidence > 30 * Hundredth
        /\ ~merge_raised =>
              \A k \in 1..Len(ingredient_scores) :
                  ingredient_scores[k].confidence > 30 * Hundredth
                      <=> \E i \in 1..Len(merged_results) :
                              merged_results[i] = ingredient_scores[k]

\* a record at exactly 0.3 was left out and one just above was kept
C8_Witness ==
    /\ MergeDone
    /\ \E k \in 1..Len(ingredient_scores) :
          /\ ingredient_scores[k].confidence = 30 * Hundredth
          /\ Records(merged_results, ingredient_scores[k].name) = {}
    /\ \E i \in 1..Len(merged_results) : merged_results[i].confidence = 32 * Hundredth

\* min((l*0.6 + r*0.4)*1.2, 1.0) for l and r in hundredths, in units
ClaimedAgreement(l, r) ==
    LET boosted == ((6 * l + 4 * r) * 12 * Unit) \div 100
    IN  IF boosted <= 100 * Hundredth THEN boosted ELSE 100 * Hundredth

IsAgreement(record, l, r) ==
    /\ record.confidence = ClaimedAgreement(l, r)
    /\ record.sources = <<"local_ml", "openai_vision">>

\* C9: a name the local detector reported once, with confidence l, and the
\* remote detector once, with confidence r, has the merged confidence
\* min((l*0.6 + r*0.4)*1.2, 1.0) and the sources local_ml, openai_vision:
\* in every returned record of that name and, when the merge ran to its end,
\* in the dict and (above 0.3) in the returned list.
C9_AgreementBonus ==
    MergeDone =>
        \A n \in ReportedNames :
            (Cardinality(Reports(local_results, n)) = 1
             /\ Cardinality(Reports(openai_results, n)) = 1) =>
                LET l == OnlyReport(local_results, n)
                    r == OnlyReport(openai_results, n)
                IN  /\ \A i \in Records(merged_results, n) :
                          IsAgreement(merged_results[i], l, r)
                    /\ ~merge_raised =>
                          /\ \E k \in Records(ingredient_scores, n) :
                                IsAgreement(ingredient_scores[k], l, r)
                          /\ ClaimedAgreement(l, r) > 30 * Hundredth =>
                                Records(merged_results, n) # {}

\* local 0.8 and remote 0.5 agree on tomato: (0.48 + 0.20) * 1.2 = 0.816
C9_Witness ==
    /\ MergeDone
    /\ local_results = <<Entry("ok", "tomato", 80)>>
    /\ openai_results = <<Entry("ok", "Tomato", 50)>>
    /\ Len(merged_results) = 1
    /\ merged_results[1].confidence = InUnits(816)
    /\ merged_results[1].sources = <<"local_ml", "openai_vision">>

\* the record has the confidence reported * weight, not the confidence it
\* came with, and the one source
IsSingle(record, reported, weight, source) ==
    /\ record.confidence = (weight * reported * Hundredth) \div 10
    /\ record.confidence # reported * Hundredth
    /\ record.sources = <<source>>

\* the name n, reported once by one list and not by the other, is merged
\* from that report alone
SingleSource(n, mine, other, weight, source) ==
    (Cardinality(Reports(mine, n)) = 1 /\ Reports(other, n) = {}) =>
        LET c == OnlyReport(mine, n)
        IN  /\ \A i \in Records(merged_results, n) :
                  IsSingle(merged_results[i], c, weight, source)
            /\ ~merge_raised =>
                  /\ \E k \in Records(ingredient_scores, n) :
                        IsSingle(ingredient_scores[k], c, weight, source)
                  /\ weight * c > 300 => Records(merged_results, n) # {}

\* C10: a name reported once, by one detector only, has the confidence
\* l*0.6 and the source local_ml, or r*0.4 and the source openai_vision; it
\* never keeps the confidence it came with.
C10_SingleSource ==
    MergeDone =>
        \A n \in ReportedNames :
            /\ SingleSource(n, local_results, openai_results, 6, "local_ml")
            /\ SingleSource(n, openai_results, local_results, 4, "openai_vision")

\* tomato from the local detector alone, onion from the remote one alone
C10_Witness ==
    /\ MergeDone
    /\ local_results = <<Entry("ok", "tomato", 80)>>
    /\ openai_results = <<Entry("ok", "onion", 100)>>
    /\ merged_results = <<Score("tomato", 48 * Hundredth, <<"local_ml">>),
                          Score("onion", 40 * Hundredth, <<"openai_vision">>)>>

\* the confidence of the last entry of a list that reports n
LastReport(list, n) ==
    list[CHOOSE i \in Reports(list, n) : \A j \in Reports(list, n) : j <= i].confidence

\* a later local entry replaces an earlier one of its name; a later remote
\* entry is merged with the earlier one, so the remote rule is stated for
\* the names the list gives once
Alone(mine, n, source) == source = "local_ml" \/ Cardinality(Reports(mine, n)) = 1

\* the returned list is what the list mine gives on its own: each record
\* comes from an entry of mine, names no other source and has weight times
\* the confidence reported for its name, and, when the merge ran to its
\* end, every name weighted above 0.3 has a record
OneSided(mine, weight, source) ==
    /\ \A i \in 1..Len(merged_results) :
          LET record == merged_results[i]
          IN  /\ Reports(mine, record.name) # {}
              /\ \A k \in 1..Len(record.sources) : record.sources[k] = source
              /\ Alone(mine, record.name, source) =>
                    /\ record.sources = <<source>>
                    /\ record.confidence
                          = (weight * LastReport(mine, record.name) * Hundredth) \div 10
    /\ ~merge_raised =>
          \A n \in OkNames(mine) :
              (Alone(mine, n, source) /\ weight * LastReport(mine, n) > 300)
                  => Records(merged_results, n) # {}

\* C11: no exception leaves merge_detection_results, whatever its inputs;
\* with one list empty the returned list is the other list merged alone,
\* and with both lists empty it is the empty list.
C11_NeverRaises ==
    /\ merge_escaped = "none"
    /\ MergeDone =>
          /\ openai_results = <<>> => OneSided(local_results, 6, "local_ml")
          /\ local_results = <<>> => OneSided(openai_results, 4, "openai_vision")
          /\ (local_results = <<>> /\ openai_results = <<>>) => merged_results = <<>>

\* the local list is empty and an entry of the remote list lacks its
\* confidence: the try block raised and the call returned the empty list
C11_Witness ==
    /\ MergeDone
    /\ local_results = <<>>
    /\ openai_results = <<Entry("ok", "Tomato", 100), Entry("no_conf", "onion", 0)>>
    /\ merge_raised
    /\ merge_escaped = "none"
    /\ merged_results = <<>>

\* the well-formed entries of a list, in their order
RECURSIVE WellFormed(_)
WellFormed(list) ==
    IF list = <<>> THEN <<>>
    ELSE IF Malformed(Head(list)) THEN WellFormed(Tail(list))
    ELSE <<Head(list)>> \o WellFormed(Tail(list))

\* C12: an entry that lacks its name or its confidence is skipped: the
\* returned list is the one the well-formed entries give without it.
C12_MalformedSkipped ==
    MergeDone =>
        merged_results
            = MergeDetectionResults(WellFormed(local_results),
                                    WellFormed(openai_results)).returned

\* a detected name without its surrounding whitespace and in lower case
Normalized(s) == IF s \in {"Tomato", " tomato"} THEN "tomato" ELSE s

\* the well-formed entries of a list whose name is n up to letter case and
\* surrounding whitespace
NormalizedReports(list, n) ==
    {i \in 1..Len(list) : list[i].kind = "ok" /\ Normalized(list[i].name) = n}

\* C23: when the merge ran to its end every merged record is kept under
\* the trimmed, lower-case form of its name, and a name that one local and
\* one remote entry give, up to letter case and surrounding whitespace, has
\* one merged record, with both sources and the agreement bonus.
C23_TrimmedAndLowercased ==
    (MergeDone /\ ~merge_raised) =>
        /\ \A k \in 1..Len(ingredient_scores) :
              ingredient_scores[k].name = Normalized(ingredient_scores[k].name)
        /\ \A n \in {"tomato", "onion"} :
              (Cardinality(NormalizedReports(local_results, n)) = 1
               /\ Cardinality(NormalizedReports(openai_results, n)) = 1) =>
                  LET l == local_results[CHOOSE i \in NormalizedReports(local_results, n) : TRUE]
                      r == openai_results[CHOOSE i \in NormalizedReports(openai_results, n) : TRUE]
                  IN  /\ Cardinality(Records(ingredient_scores, n)) = 1
                      /\ \A k \in Records(ingredient_scores, n) :
                            IsAgreement(ingredient_scores[k], l.confidence, r.confidence)

\* the position, among the local entries followed by the remote ones, of
\* the first entry that gives the name n
FirstSeen(n) ==
    LET inputs == local_results \o openai_results
    IN  CHOOSE i \in Reports(inputs, n) : \A j \in Reports(inputs, n) : i <= j

\* C24: two returned records of equal confidence stand in the order in
\* which their names were first met, the local entries before the remote
\* ones, also when a name is given more than once.
C24_StableSort ==
    MergeDone =>
        \A i, j \in 1..Len(merged_results) :
            (i < j /\ merged_results[i].confidence = merged_results[j].confidence)
                => FirstSeen(merged_results[i].name) < FirstSeen(merged_results[j].name)

\* tomato is met first and written last, onion between: both end at 0.6
\* and tomato stays first
C24_Witness ==
    /\ MergeDone
    /\ local_results = <<Entry("ok", "tomato", 80), Entry("ok", "onion", 100),
                         Entry("ok", "Tomato", 100)>>
    /\ openai_results = <<>>
    /\ merged_results = <<Score("tomato", 60 * Hundredth, <<"local_ml">>),
                          Score("onion", 60 * Hundredth, <<"local_ml">>)>>

\* C25: when the merge ran to its end, a name that only remote entries
\* give, once or more often, has a merged record with the one source
\* openai_vision, listed once, and with 0.4 times the confidence of one of
\* its remote entries: no bonus without a local report.
C25_BonusNeedsLocal ==
    (MergeDone /\ ~merge_raised) =>
        \A n \in OkNames(openai_results) :
            Reports(local_results, n) = {} =>
                /\ Records(ingredient_scores, n) # {}
                /\ \A k \in Records(ingredient_scores, n) :
                      /\ ingredient_scores[k].sources = <<"openai_vision">>
                      /\ \E i \in Reports(openai_results, n) :
                            ingredient_scores[k].confidence
                                = (4 * openai_results[i].confidence * Hundredth) \div 10

-----------------------------------------------------------------------------
(* Properties of registration and authentication, checked under SpecAuth *)

\* this step answers a new exchange of the endpoint
Answered(endpoint) == http' # http /\ http'.endpoint = endpoint

\* the stored user a token was issued to
Holder(sub) == {u \in users : Str(u.id) = sub}

\* C14: a request to GET /users/profile that bears the token of a
\* successful registration, made while the user's record exists and the
\* token is unexpired, is answered 200 with the registered email.
C14_TokenAuthenticates ==
    [][(/\ Answered("profile")
        /\ http'.cred.present
        /\ http'.cred.sub \in tokens \ expired
        /\ Holder(http'.cred.sub) # {})
          => /\ http'.status = 200
             /\ \E u \in Holder(http'.cred.sub) : http'.body_email = u.email]_vars

\* C15: a request to a protected endpoint that carries no credentials is
\* answered 401 and the body of the handler is not entered.
C15_NoCredentials ==
    (http.endpoint = "profile" /\ ~http.cred.present) =>
        (http.status = 401 /\ ~http.handler)

\* the detail contains "already exists"
MentionsExists(detail) == detail = AlreadyExists

\* the request of this step was answered at once, by register's checks
RejectedAtOnce == Answered("register") /\ reg' = reg

\* the email or the username of the request belongs to a stored user
Taken(email, username) ==
    \E u \in users : u.email = email \/ u.username = username

\* C16 as stated: a register request whose email or username belongs to a
\* stored user is answered 400 with a detail containing "already exists",
\* and the stored users stay as they are.
C16_DuplicateRejected ==
    [][(RejectedAtOnce /\ Taken(http'.email, http'.username))
          => /\ http'.status = 400
             /\ MentionsExists(http'.detail)
             /\ users' = users]_vars

\* C16, amended: the same for a request whose email passes validate_email
\* and whose username passes validate_username; and no request whose email
\* or username is taken when it arrives gets past the checks of register.
C16_ValidDuplicateRejected ==
    [][/\ (/\ Answered("register")
            /\ reg' = reg
            /\ ValidateEmail(http'.email)
            /\ ValidateUsername(http'.username)
            /\ Taken(http'.email, http'.username))
              => /\ http'.status = 400
                 /\ MentionsExists(http'.detail)
                 /\ users' = users
       /\ \A s \in 1..MaxRequests :
              (reg[s].pc = "idle" /\ reg'[s].pc = "insert")
                  => ~Taken(reg'[s].email, reg'[s].username)]_vars

\* ann is stored and a request with her email and the name bob was
\* answered 400, already exists
C16_Witness ==
    /\ http.endpoint = "register"
    /\ http.email = "ann@x.io"
    /\ http.username = "bob"
    /\ http.status = 400
    /\ MentionsExists(http.detail)
    /\ users = {User(ObjectId(1), "ann@x.io", "ann")}

-----------------------------------------------------------------------------
(* Properties of upload_images, checked under SpecUpload *)

UploadDone == up_pc = "done"

\* the file fails for one of the three reasons the claim gives
Unacceptable(file) ==
    \/ Extension(file.filename) \notin {"jpg", "jpeg", "png", "webp"}
    \/ file.size > 10485760
    \/ file.content_type \notin {"image/jpeg", "image/jpg", "image/png", "image/webp"}

\* C17: a request with more than 5 files, or with a file whose extension,
\* size or content type is not acceptable, is answered 400; no detector was
\* called for it and its response carries no ingredient list. A request
\* with neither is not answered 400.
C17_RejectsInvalid ==
    UploadDone =>
        IF Len(up_files) > 5 \/ \E i \in 1..Len(up_files) : Unacceptable(up_files[i])
        THEN /\ up_status = 400
             /\ detector_calls = 0
             /\ detections = <<>>
             /\ up_body = <<>>
        ELSE up_status # 400

\* the second of two files is one byte too large: 400 and no detector call
C17_Witness ==
    /\ UploadDone
    /\ up_files = <<UploadFile("b.PNG", MaxUploadSize, "image/png"),
                    UploadFile("d.jpg", MaxUploadSize + 1, "image/jpeg")>>
    /\ up_status = 400
    /\ detector_calls = 0
    /\ up_body = <<>>

\* the request was answered 200
Processed == UploadDone /\ up_status = 200 /\ Len(up_body) = 1

\* the list merge_detection_results returned for the i-th image
PerImage(i) == detections[i].merged

\* the confidences the name n obtained in the images
Obtained(n) ==
    UNION {{PerImage(i)[k].confidence : k \in Records(PerImage(i), n)} :
              i \in 1..Len(detections)}

\* the names the images gave
ObtainedNames ==
    UNION {{PerImage(i)[k].name : k \in 1..Len(PerImage(i))} : i \in 1..Len(detections)}

\* C26: the list of a 200 response holds no name twice; each of its
\* records has a name the images gave and the highest confidence that name
\* obtained in an image; each record's confidence is at least that of the
\* record behind it; the list has at most 20 records, and a name it leaves
\* out obtained no more than any name it holds, which are then 20.
C26_UniqueHighestTop20 ==
    Processed =>
        LET body == up_body[1]
        IN  /\ \A i, j \in 1..Len(body) : body[i].name = body[j].name => i = j
            /\ \A i \in 1..Len(body) :
                  /\ body[i].name \in ObtainedNames
                  /\ body[i].confidence \in Obtained(body[i].name)
                  /\ \A c \in Obtained(body[i].name) : c <= body[i].confidence
            /\ \A i \in 1..(Len(body) - 1) :
                  body[i].confidence >= body[i + 1].confidence
            /\ Len(body) <= 20
            /\ \A n \in ObtainedNames :
                  Records(body, n) = {} =>
                      /\ Len(body) = 20
                      /\ \A c \in Obtained(n) : c <= body[20].confidence

\* the second image gives tomato a higher confidence than the first and
\* the two images give 24 names: the list holds 20, tomato first with 1.0
C26_Witness ==
    /\ Processed
    /\ Len(detections) = 2
    /\ Cardinality(ObtainedNames) = 24
    /\ Obtained("tomato") = {InUnits(552), 100 * Hundredth}
    /\ PerImage(1)[1].confidence = InUnits(552)
    /\ Len(up_body[1]) = 20
    /\ up_body[1][1].name = "tomato"
    /\ up_body[1][1].confidence = 100 * Hundredth

\* a detector of the i-th image raised or returned nothing
DetectionFailed(i) == detections[i].local = <<>> \/ detections[i].openai = <<>>

\* the list holds the record's name with at least its confidence, or it is
\* full and holds nothing below it
InList(body, record) ==
    \/ \E j \in 1..Len(body) :
          body[j].name = record.name /\ body[j].confidence >= record.confidence
    \/ Len(body) = 20 /\ body[20].confidence >= record.confidence

\* C27: a request whose files were all accepted is answered 200, also when
\* a detector raised or returned nothing for some of its images, and its
\* list holds what the merge returned for each image.
C27_DetectionFailureTolerated ==
    (UploadDone /\ Len(up_files) <= 5
     /\ \A i \in 1..Len(up_files) : ~Unacceptable(up_files[i])) =>
        /\ up_status = 200
        /\ Len(up_body) = 1
        /\ Len(detections) = Len(up_files)
        /\ \A i \in 1..Len(detections) :
              \A k \in 1..Len(PerImage(i)) : InList(up_body[1], PerImage(i)[k])

\* both detectors raised for the first of two images: the response is 200
\* and lists what the second image gave
C27_Witness ==
    /\ Processed
    /\ Len(detections) = 2
    /\ detections[1].local = <<>>
    /\ detections[1].openai = <<>>
    /\ DetectionFailed(1)
    /\ detections[2].local = MockIngredients
    /\ Len(detections[2].openai) = 3
    /\ Len(up_body[1]) = 4
    /\ up_body[1][1].name = "tomato"
    /\ up_body[1][1].confidence = 100 * Hundredth

\* C28: when the request has been answered, with 200 or with an error,
\* none of the files it saved under uploads/temp is left.
C28_NoTempFilesLeft == UploadDone => temp_files = {}

-----------------------------------------------------------------------------
(* Properties of the recipe and account handlers, checked under SpecRecipes *)

\* C13: POST /recipes/generate with at least one ingredient is answered 200
\* with a generated_recipe that has a title and steps, whether the
\* generative call succeeded, answered with something else than a recipe,
\* or raised.
C13_GenerateAnswers200 ==
    response.endpoint = "generate" =>
        /\ response.status = 200
        /\ Len(response.body) = 1
        /\ response.body[1].title # ""
        /\ Len(response.body[1].steps) >= 1

\* C18: the stored flag of a recipe is true iff the number of toggle
\* requests answered 200 for it is odd, also when toggle requests overlap.
C18_ToggleParity ==
    \A d \in generated_recipes :
        d.is_favorite <=> (toggle_count[d.id] % 2 = 1)

\* C19: once the deletion of a user's account has answered success there
\* is, in every later state, no user record and no generated recipe of
\* that user.
C19_DeletionComplete ==
    \A id \in deleted_ok :
        /\ \A u \in users : u.id # id
        /\ \A d \in generated_recipes : d.user_id # id

\* the stored recipes that the answered request named and that belong to
\* another user than its caller
ForeignRecipes(answer) ==
    {d \in generated_recipes :
        /\ IsValid(answer.recipe_id)
        /\ d.id = ObjectIdOf(answer.recipe_id)
        /\ d.user_id # answer.user}

\* C29: a get_generated_recipe or toggle_favorite request for a stored
\* recipe of another user is answered 404 without the recipe in its body,
\* and the step leaves the stored recipes as they are; the is_favorite flag
\* of a recipe changes only in a step that answers a toggle request of the
\* recipe's owner with 200.
C29_IsolatedPerUser ==
    [][/\ (response'.endpoint \in {"get", "toggle"}
            /\ ForeignRecipes(response') # {})
              => /\ response'.status = 404
                 /\ response'.body = <<>>
                 /\ generated_recipes' = generated_recipes
       /\ \A d \in generated_recipes, e \in generated_recipes' :
              (d.id = e.id /\ d.is_favorite # e.is_favorite)
                  => /\ response'.endpoint = "toggle"
                     /\ response'.status = 200
                     /\ response'.user = d.user_id
                     /\ response'.recipe_id = Str(d.id)]_vars

\* the owner has made the recipe a favorite and a toggle request of the
\* other user for it was answered 404: the flag is still set
C29_Witness ==
    /\ response.endpoint = "toggle"
    /\ response.status = 404
    /\ \E d \in generated_recipes :
          /\ Str(d.id) = response.recipe_id
          /\ d.user_id # response.user
          /\ d.is_favorite
          /\ toggle_count[d.id] = 1


\* C30: in every reachable state of the collection users no two documents
\* share an email and no two share a username, also when two registrations,
\* or a registration and a profile username update, for the same email or
\* username have both passed their existence check before either wrote
C30_UniqueEmailAndUsername ==
    \A u \in users, v \in users :
        (u.email = v.email \/ u.username = v.username) => u = v

\* a registration that had passed its check was answered 500 because the
\* other registration for its email had written first, and a profile update
\* that has passed its check is about to write a username a registration
\* has stored meanwhile
C30_Witness ==
    /\ http.endpoint = "register"
    /\ http.status = 500
    /\ \E u \in users : u.email = http.email
    /\ \E h \in BagToSet(updates) :
           h.pc = "write" /\ OtherWithUsername(h.id, h.username) # {}

====
